---- MODULE Spec2Model ----
(***************************************************************************)
(* TIE feedback generation: FeedbackGeneratorService (feedback selection,  *)
(* hint escalation, error-trace line remapping, value rendering) and       *)
(* ErrorTraceback, as a state machine over one tutoring session.           *)
(*                                                                         *)
(* Conventions.  A JavaScript string that the code takes apart             *)
(* (startsWith, replace with a regular expression) is a sequence of        *)
(* one-character strings; Join turns it into the string it denotes.  A     *)
(* nullable value is <<>> (null/undefined) or <<v>>.  JavaScript arrays    *)
(* are sequences; Get reads them with the code's 0-based index.  An        *)
(* operation that can throw returns Ok(value) or Throw(message).           *)
(***************************************************************************)
EXTENDS Integers, Sequences, FiniteSets, TLC

VARIABLES
  tasks,               \* the tasks of the question of this session
  transcript,          \* the snapshots recorded (the most recent one)
  pc,                  \* "idle", or "returned"/"threw" after an operation
  call,                \* the last operation called and its arguments
  selected,            \* the branch that operation took
  result,              \* what it returned: Ok(feedback) or Throw(message)
  reinforcementCalls   \* the calls of the reinforcement generator it made

vars == <<tasks, transcript, pc, call, selected, result, reinforcementCalls>>

-----------------------------------------------------------------------------
(* Bounds of the model.                                                    *)

\* Reported evaluator line numbers range over 0..MaxLineNumber.
MaxLineNumber == 3

-----------------------------------------------------------------------------
(* JavaScript values and helpers.                                          *)

Null == <<>>
Some(v) == <<v>>

Ok(v) == [threw |-> FALSE, val |-> v]
Throw(msg) == [threw |-> TRUE, val |-> msg]

\* arr[i] with a 0-based index; Null when the index is outside the array.
Get(arr, i) == IF i + 1 \in DOMAIN arr THEN Some(arr[i + 1]) ELSE Null

RECURSIVE Join(_)
Join(chars) == IF chars = <<>> THEN "" ELSE Head(chars) \o Join(Tail(chars))

RECURSIVE JoinWith(_, _)
JoinWith(strs, sep) ==
  IF strs = <<>> THEN ""
  ELSE IF Len(strs) = 1 THEN strs[1]
  ELSE strs[1] \o sep \o JoinWith(Tail(strs), sep)

\* Mutant: the prefix is looked for anywhere in the string.
startsWith_anywhere(chars, prefix) ==
  \E k \in 1..Len(chars) :
    /\ k + Len(prefix) - 1 <= Len(chars)
    /\ SubSeq(chars, k, k + Len(prefix) - 1) = prefix

startsWith(chars, prefix) ==
  /\ Len(chars) >= Len(prefix)
  /\ SubSeq(chars, 1, Len(prefix)) = prefix

Digits == {"0", "1", "2", "3", "4", "5", "6", "7", "8", "9"}

DigitValue(c) ==
  CASE c = "0" -> 0 [] c = "1" -> 1 [] c = "2" -> 2 [] c = "3" -> 3
    [] c = "4" -> 4 [] c = "5" -> 5 [] c = "6" -> 6 [] c = "7" -> 7
    [] c = "8" -> 8 [] c = "9" -> 9

\* Number(s) for a string of decimal digits.
RECURSIVE Number(_)
Number(digits) ==
  IF digits = <<>> THEN 0
  ELSE 10 * Number(SubSeq(digits, 1, Len(digits) - 1))
         + DigitValue(digits[Len(digits)])

\* JavaScript values: type is "null" (null or undefined), "string" (value:
\* its characters), "number", "boolean", "array" (value: its elements),
\* "object" (value: its <<key, value>> entries in enumeration order, key a
\* string's characters) or "function" (a value of none of the recognised
\* kinds).
JsNull == [type |-> "null", value |-> <<>>]
JsString(chars) == [type |-> "string", value |-> chars]
JsNumber(n) == [type |-> "number", value |-> n]
JsBoolean(b) == [type |-> "boolean", value |-> b]
JsArray(elems) == [type |-> "array", value |-> elems]
JsObject(entries) == [type |-> "object", value |-> entries]
JsFunction == [type |-> "function", value |-> <<>>]

\* Mutant: replace() without the g flag, which replaces the first tab and the
\* first newline only.
RECURSIVE escapeFirst(_, _, _)
escapeFirst(chars, char, escaped) ==
  IF chars = <<>> THEN <<>>
  ELSE IF Head(chars) = char THEN <<escaped>> \o Tail(chars)
  ELSE <<Head(chars)>> \o escapeFirst(Tail(chars), char, escaped)

escapeTabsAndNewlines_firstOnly(chars) ==
  Join(escapeFirst(escapeFirst(chars, "\t", "\\t"), "\n", "\\n"))

RECURSIVE escapeTabsAndNewlines(_)
escapeTabsAndNewlines(chars) ==
  IF chars = <<>> THEN ""
  ELSE (CASE Head(chars) = "\t" -> "\\t"
          [] Head(chars) = "\n" -> "\\n"
          [] OTHER -> Head(chars))
       \o escapeTabsAndNewlines(Tail(chars))

\* The first thrown result of a sequence of results, if any.
RECURSIVE FirstThrow(_)
FirstThrow(results) ==
  IF results = <<>> THEN Null
  ELSE IF Head(results).threw THEN Some(Head(results))
  ELSE FirstThrow(Tail(results))

RECURSIVE jsToHumanReadable(_)
jsToHumanReadable(jsVariable) ==
  CASE jsVariable.type = "null" -> Ok("None")
    [] jsVariable.type = "string" ->
         Ok("\"" \o escapeTabsAndNewlines(jsVariable.value) \o "\"")
    [] jsVariable.type = "number" -> Ok(ToString(jsVariable.value))
    [] jsVariable.type = "boolean" ->
         Ok(IF jsVariable.value THEN "True" ELSE "False")
    [] jsVariable.type = "array" ->
         LET humanReadableElements ==
               [k \in DOMAIN jsVariable.value |->
                  jsToHumanReadable(jsVariable.value[k])]
             thrown == FirstThrow(humanReadableElements)
         IN IF thrown # Null THEN thrown[1]
            ELSE Ok("[" \o JoinWith([k \in DOMAIN humanReadableElements |->
                                       humanReadableElements[k].val], ", ")
                        \o "]")
    [] jsVariable.type = "object" ->
         LET keys == [k \in DOMAIN jsVariable.value |->
                        jsToHumanReadable(JsString(jsVariable.value[k][1]))]
             values == [k \in DOMAIN jsVariable.value |->
                          jsToHumanReadable(jsVariable.value[k][2])]
             thrown == FirstThrow(values)
         IN IF thrown # Null THEN thrown[1]
            ELSE Ok("{" \o JoinWith([k \in DOMAIN jsVariable.value |->
                                       keys[k].val \o ": " \o values[k].val],
                                    ", ")
                        \o "}")
    [] OTHER ->
         Throw("Could not make the following object human-readable: ")

-----------------------------------------------------------------------------
(* Feedback objects (FeedbackObjectFactory).                               *)

FeedbackCreate(isAnswerCorrect) ==
  [paragraphs |-> <<>>, isAnswerCorrect |-> isAnswerCorrect,
   hintIndex |-> Null, reinforcement |-> Null]

appendTextParagraph(feedback, text) ==
  [feedback EXCEPT !.paragraphs =
     Append(@, [type |-> "text", content |-> text])]

appendCodeParagraph(feedback, code) ==
  [feedback EXCEPT !.paragraphs =
     Append(@, [type |-> "code", content |-> code])]

appendSyntaxErrorParagraph(feedback, text) ==
  [feedback EXCEPT !.paragraphs =
     Append(@, [type |-> "error", content |-> text])]

setHintIndex(feedback, index) == [feedback EXCEPT !.hintIndex = Some(index)]

setReinforcement(feedback, reinforcement) ==
  [feedback EXCEPT !.reinforcement = Some(reinforcement)]

\* A snapshot of the transcript: the evaluation result of a submission (Null
\* when its prerequisite check failed) and the feedback given for it.
Snapshot(evalResult, feedback) ==
  [codeEvalResult |-> evalResult, feedback |-> feedback]

\* Transcript.getMostRecentSnapshot(): Null for an empty transcript.
getMostRecentSnapshot(snapshots) ==
  IF snapshots = <<>> THEN Null ELSE Some(snapshots[Len(snapshots)])

\* ReinforcementGeneratorService.getReinforcement: opaque, keyed on its
\* arguments.
getReinforcement(task, evalResult) ==
  [task |-> task, codeEvalResult |-> evalResult]

\* CorrectnessTest.matchesOutput: the output is one of the allowed outputs.
matchesOutput(correctnessTest, output) ==
  \E k \in DOMAIN correctnessTest.allowedOutputs :
    /\ correctnessTest.allowedOutputs[k].type = output.type
    /\ correctnessTest.allowedOutputs[k].value = output.value

\* CorrectnessTest.getAnyAllowedOutput.
getAnyAllowedOutput(correctnessTest) == correctnessTest.allowedOutputs[1]

-----------------------------------------------------------------------------
(* FeedbackGeneratorService.                                               *)

CODE_EXECUTION_TIMEOUT_SECONDS == 3

\* Mutant: a resubmission of the same source advances the hint too.
getHintIndex_ignoresSource(failingTest, evalResult, snapshots) ==
  LET buggyMessages == failingTest.messages
      lastSnapshot == getMostRecentSnapshot(snapshots)
  IN IF lastSnapshot # Null /\ lastSnapshot[1].codeEvalResult # Null
     THEN LET previousFeedback == lastSnapshot[1].feedback
              previousHintIndex == previousFeedback.hintIndex
          IN IF previousHintIndex # Null
             THEN IF Some(previousFeedback.paragraphs[1].content) =
                       Get(buggyMessages, previousHintIndex[1])
                  THEN IF previousHintIndex[1] = Len(buggyMessages) - 1
                       THEN previousHintIndex[1]
                       ELSE previousHintIndex[1] + 1
                  ELSE 0
             ELSE 0
     ELSE 0

\* The most recent snapshot whose feedback has a hint index, if any.
RECURSIVE lastHintedSnapshot(_)
lastHintedSnapshot(snapshots) ==
  IF snapshots = <<>> THEN Null
  ELSE IF snapshots[Len(snapshots)].feedback.hintIndex # Null
  THEN Some(snapshots[Len(snapshots)])
  ELSE lastHintedSnapshot(SubSeq(snapshots, 1, Len(snapshots) - 1))

\* Mutant: the hint goes on from the most recent snapshot that gave a hint,
\* whatever was submitted since.
getHintIndex_lastHinted(failingTest, evalResult, snapshots) ==
  LET buggyMessages == failingTest.messages
      lastSnapshot == lastHintedSnapshot(snapshots)
  IN IF lastSnapshot # Null /\ lastSnapshot[1].codeEvalResult # Null
     THEN LET previousFeedback == lastSnapshot[1].feedback
              previousHintIndex == previousFeedback.hintIndex
          IN IF Some(previousFeedback.paragraphs[1].content) =
                  Get(buggyMessages, previousHintIndex[1])
             THEN IF \/ lastSnapshot[1].codeEvalResult[1].preprocessedCode =
                          evalResult.preprocessedCode
                     \/ previousHintIndex[1] = Len(buggyMessages) - 1
                  THEN previousHintIndex[1]
                  ELSE previousHintIndex[1] + 1
             ELSE 0
     ELSE 0

\* The most recent snapshot that has an evaluation result, if any.
RECURSIVE lastEvaluatedSnapshot(_)
lastEvaluatedSnapshot(snapshots) ==
  IF snapshots = <<>> THEN Null
  ELSE IF snapshots[Len(snapshots)].codeEvalResult # Null
  THEN Some(snapshots[Len(snapshots)])
  ELSE lastEvaluatedSnapshot(SubSeq(snapshots, 1, Len(snapshots) - 1))

\* Mutant: the snapshots of failed prerequisite checks are skipped.
getHintIndex_skipsFailedPrereq(failingTest, evalResult, snapshots) ==
  LET buggyMessages == failingTest.messages
      lastSnapshot == lastEvaluatedSnapshot(snapshots)
  IN IF lastSnapshot # Null /\ lastSnapshot[1].codeEvalResult # Null
     THEN LET previousFeedback == lastSnapshot[1].feedback
              previousHintIndex == previousFeedback.hintIndex
          IN IF previousHintIndex # Null
             THEN LET previousMessages == previousFeedback.paragraphs
                  IN IF Some(previousMessages[1].content) =
                          Get(buggyMessages, previousHintIndex[1])
                     THEN LET previousCode ==
                                lastSnapshot[1].codeEvalResult[1]
                                  .preprocessedCode
                          IN IF \/ previousCode = evalResult.preprocessedCode
                                \/ previousHintIndex[1] =
                                     Len(buggyMessages) - 1
                             THEN previousHintIndex[1]
                             ELSE previousHintIndex[1] + 1
                     ELSE 0
             ELSE 0
     ELSE 0

\* Mutant: the previous text is compared with the first hint of the test.
getHintIndex_comparesFirstHint(failingTest, evalResult, snapshots) ==
  LET buggyMessages == failingTest.messages
      lastSnapshot == getMostRecentSnapshot(snapshots)
  IN IF lastSnapshot # Null /\ lastSnapshot[1].codeEvalResult # Null
     THEN LET previousFeedback == lastSnapshot[1].feedback
              previousHintIndex == previousFeedback.hintIndex
          IN IF previousHintIndex # Null
             THEN LET previousMessages == previousFeedback.paragraphs
                  IN IF Some(previousMessages[1].content) =
                          Get(buggyMessages, 0)
                     THEN LET previousCode ==
                                lastSnapshot[1].codeEvalResult[1]
                                  .preprocessedCode
                          IN IF \/ previousCode = evalResult.preprocessedCode
                                \/ previousHintIndex[1] =
                                     Len(buggyMessages) - 1
                             THEN previousHintIndex[1]
                             ELSE previousHintIndex[1] + 1
                     ELSE 0
             ELSE 0
     ELSE 0

\* Mutant: the index stops one past the last hint.
getHintIndex_clampsPastEnd(failingTest, evalResult, snapshots) ==
  LET buggyMessages == failingTest.messages
      lastSnapshot == getMostRecentSnapshot(snapshots)
  IN IF lastSnapshot # Null /\ lastSnapshot[1].codeEvalResult # Null
     THEN LET previousFeedback == lastSnapshot[1].feedback
              previousHintIndex == previousFeedback.hintIndex
          IN IF previousHintIndex # Null
             THEN LET previousMessages == previousFeedback.paragraphs
                  IN IF Some(previousMessages[1].content) =
                          Get(buggyMessages, previousHintIndex[1])
                     THEN LET previousCode ==
                                lastSnapshot[1].codeEvalResult[1]
                                  .preprocessedCode
                          IN IF \/ previousCode = evalResult.preprocessedCode
                                \/ previousHintIndex[1] =
                                     Len(buggyMessages)
                             THEN previousHintIndex[1]
                             ELSE previousHintIndex[1] + 1
                     ELSE 0
             ELSE 0
     ELSE 0

\* The hint index the code assigns before it builds the feedback.
getHintIndex(failingTest, evalResult, snapshots) ==
  LET buggyMessages == failingTest.messages
      lastSnapshot == getMostRecentSnapshot(snapshots)
  IN IF lastSnapshot # Null /\ lastSnapshot[1].codeEvalResult # Null
     THEN LET previousFeedback == lastSnapshot[1].feedback
              previousHintIndex == previousFeedback.hintIndex
          IN IF previousHintIndex # Null
             THEN LET previousMessages == previousFeedback.paragraphs
                  IN IF Some(previousMessages[1].content) =
                          Get(buggyMessages, previousHintIndex[1])
                     THEN LET previousCode ==
                                lastSnapshot[1].codeEvalResult[1]
                                  .preprocessedCode
                          IN IF \/ previousCode = evalResult.preprocessedCode
                                \/ previousHintIndex[1] =
                                     Len(buggyMessages) - 1
                             THEN previousHintIndex[1]
                             ELSE previousHintIndex[1] + 1
                     ELSE 0
             ELSE 0
     ELSE 0

\* buggyMessages[hintIndex]; outside the array JavaScript gives undefined,
\* which is written "undefined" here.
hintAt(buggyMessages, hintIndex) ==
  IF Get(buggyMessages, hintIndex) = Null THEN "undefined"
  ELSE buggyMessages[hintIndex + 1]

\* Mutant: the hint index is not set on the feedback.
getBuggyOutputTestFeedback_noHintIndex(failingTest, evalResult, snapshots) ==
  LET hintIndex == getHintIndex(failingTest, evalResult, snapshots)
      feedback == FeedbackCreate(FALSE)
  IN appendTextParagraph(feedback, hintAt(failingTest.messages, hintIndex))

getBuggyOutputTestFeedback(failingTest, evalResult, snapshots) ==
  LET hintIndex == getHintIndex(failingTest, evalResult, snapshots)
      feedback == FeedbackCreate(FALSE)
  IN setHintIndex(
       appendTextParagraph(feedback, hintAt(failingTest.messages, hintIndex)),
       hintIndex)

getCorrectnessTestFeedback(outputFunctionName, correctnessTest, observedOutput) ==
  LET allowedOutputExample == getAnyAllowedOutput(correctnessTest)
      input == jsToHumanReadable(correctnessTest.input)
      observed == jsToHumanReadable(observedOutput)
      allowed == jsToHumanReadable(allowedOutputExample)
      thrown == FirstThrow(<<input, observed, allowed>>)
      f0 == FeedbackCreate(FALSE)
      f1 == appendTextParagraph(f0, "Your code produced the following result:")
      f3 == IF outputFunctionName # Null
            THEN appendTextParagraph(
                   appendCodeParagraph(f1,
                     "Input: " \o input.val \o "\n" \o
                     "Output (after running " \o outputFunctionName[1] \o
                     "): " \o observed.val),
                   "However, the expected output of " \o
                   outputFunctionName[1] \o " is:")
            ELSE appendTextParagraph(
                   appendCodeParagraph(f1,
                     "Input: " \o input.val \o "\n" \o
                     "Output: " \o observed.val),
                   "However, the expected output is:")
      f4 == appendCodeParagraph(f3, allowed.val)
  IN IF thrown # Null THEN thrown[1]
     ELSE Ok(appendTextParagraph(f4, "Could you fix this?"))

getPerformanceTestFeedback(expectedPerformance) ==
  appendTextParagraph(FeedbackCreate(FALSE),
    Join(<<"Your code is running more slowly than expected. Can you ",
           "reconfigure it such that it runs in ",
           expectedPerformance,
           " time?">>))

\* The match of new RegExp('line ([0-9]+)$') in a string: Null, or the
\* 1-based position where "line " starts (all that follows it is one or more
\* digits, up to the end of the string).
RECURSIVE matchLineNumber(_, _)
matchLineNumber(chars, start) ==
  IF start + 5 > Len(chars) THEN Null
  ELSE IF /\ SubSeq(chars, start, start + 4) = <<"l", "i", "n", "e", " ">>
          /\ \A k \in (start + 5)..Len(chars) : chars[k] \in Digits
       THEN Some(start)
       ELSE matchLineNumber(chars, start + 1)

\* Mutant: the raw line index is shown as it is, 0-based.
replaceLineNumber_zeroBased(humanReadableLineNumber, lineIndexes) ==
  LET preprocessedCodeLineIndex == Number(humanReadableLineNumber) - 1
  IN IF \/ preprocessedCodeLineIndex < 0
        \/ preprocessedCodeLineIndex >= Len(lineIndexes)
     THEN Throw("Line number index out of range: " \o
                ToString(preprocessedCodeLineIndex))
     ELSE IF lineIndexes[preprocessedCodeLineIndex + 1] = Null
          THEN Ok("a line in the test code")
          ELSE Ok("line " \o
                  ToString(lineIndexes[preprocessedCodeLineIndex + 1][1]))

\* The replacement callback of the line-number substitution.
replaceLineNumber(humanReadableLineNumber, lineIndexes) ==
  LET preprocessedCodeLineIndex == Number(humanReadableLineNumber) - 1
  IN IF \/ preprocessedCodeLineIndex < 0
        \/ preprocessedCodeLineIndex >= Len(lineIndexes)
     THEN Throw("Line number index out of range: " \o
                ToString(preprocessedCodeLineIndex))
     ELSE IF lineIndexes[preprocessedCodeLineIndex + 1] = Null
          THEN Ok("a line in the test code")
          ELSE Ok("line " \o
                  ToString(lineIndexes[preprocessedCodeLineIndex + 1][1] + 1))

\* Mutant: an error of the replacement callback is caught and the error
\* string is shown as it is.
fixErrorString_swallows(errorString, lineIndexes) ==
  LET match == matchLineNumber(errorString, 1)
  IN IF match = Null THEN Ok(Join(errorString))
     ELSE LET replacement ==
                replaceLineNumber(
                  SubSeq(errorString, match[1] + 5, Len(errorString)),
                  lineIndexes)
          IN IF replacement.threw THEN Ok(Join(errorString))
             ELSE Ok(Join(SubSeq(errorString, 1, match[1] - 1)) \o
                     replacement.val)

\* Mutant: an error string without a line reference is rejected.
fixErrorString_requiresMatch(errorString, lineIndexes) ==
  LET match == matchLineNumber(errorString, 1)
  IN IF match = Null THEN Throw("Line number index out of range: NaN")
     ELSE LET replacement ==
                replaceLineNumber(
                  SubSeq(errorString, match[1] + 5, Len(errorString)),
                  lineIndexes)
          IN IF replacement.threw THEN replacement
             ELSE Ok(Join(SubSeq(errorString, 1, match[1] - 1)) \o
                     replacement.val)

fixErrorString(errorString, lineIndexes) ==
  LET match == matchLineNumber(errorString, 1)
  IN IF match = Null THEN Ok(Join(errorString))
     ELSE LET replacement ==
                replaceLineNumber(
                  SubSeq(errorString, match[1] + 5, Len(errorString)),
                  lineIndexes)
          IN IF replacement.threw THEN replacement
             ELSE Ok(Join(SubSeq(errorString, 1, match[1] - 1)) \o
                     replacement.val)

getRuntimeErrorFeedback(evalResult, lineIndexes) ==
  LET errorInput == evalResult.errorInput
      rendered == jsToHumanReadable(errorInput)
      fixedErrorString == fixErrorString(evalResult.errorString, lineIndexes)
  IN IF rendered.threw THEN rendered
     ELSE IF fixedErrorString.threw THEN fixedErrorString
     ELSE Ok(appendCodeParagraph(
               appendTextParagraph(FeedbackCreate(FALSE),
                 "Looks like your code had a runtime error" \o
                 " when evaluating the input " \o rendered.val \o
                 ". Here's the trace:"),
               fixedErrorString.val))

getTimeoutErrorFeedback ==
  appendTextParagraph(FeedbackCreate(FALSE),
    Join(<<"Your program's exceeded the time limit (",
           ToString(CODE_EXECUTION_TIMEOUT_SECONDS),
           " seconds) we've set. Can you try to make it run ",
           "more efficiently?">>))

getInfiniteLoopFeedback ==
  appendTextParagraph(FeedbackCreate(FALSE),
    JoinWith(<<"Looks like your code is hitting an infinite recursive loop.",
               "Check to see that your recursive calls terminate.">>, " "))

getCompletionFeedback ==
  appendTextParagraph(FeedbackCreate(TRUE),
    Join(<<"You've completed all the tasks for this question! Click the ",
           "\"Next\" button to move on to the next question.">>))

Case(kind, task, position) ==
  [kind |-> kind, task |-> task, position |-> position]

\* The scan of one task's buggy-output results from position j (the loop at
\* lines 291-296): the first position whose result is truthy, or Null.
RECURSIVE firstFailingBuggyOutputTest(_, _)
firstFailingBuggyOutputTest(results, j) ==
  IF j > Len(results) THEN Null
  ELSE IF results[j] THEN Some(j)
  ELSE firstFailingBuggyOutputTest(results, j + 1)

\* Mutant: the loop runs from the last correctness test to the first.
RECURSIVE lastFailingCorrectnessTest(_, _, _)
lastFailingCorrectnessTest(tests, observedOutputs, j) ==
  IF j > Len(tests) THEN Null
  ELSE LET later == lastFailingCorrectnessTest(tests, observedOutputs, j + 1)
       IN IF later # Null THEN later
          ELSE IF ~matchesOutput(tests[j], observedOutputs[j]) THEN Some(j)
          ELSE Null

\* The loop at lines 298-306.
RECURSIVE firstFailingCorrectnessTest(_, _, _)
firstFailingCorrectnessTest(tests, observedOutputs, j) ==
  IF j > Len(tests) THEN Null
  ELSE IF ~matchesOutput(tests[j], observedOutputs[j]) THEN Some(j)
  ELSE firstFailingCorrectnessTest(tests, observedOutputs, j + 1)

\* Mutant: the loop stops one performance test early.
RECURSIVE firstFailingPerformanceTest_skipsLast(_, _, _)
firstFailingPerformanceTest_skipsLast(tests, results, j) ==
  IF j > Len(tests) - 1 THEN Null
  ELSE IF tests[j].expectedPerformance # results[j] THEN Some(j)
  ELSE firstFailingPerformanceTest_skipsLast(tests, results, j + 1)

\* The loop at lines 308-316.
RECURSIVE firstFailingPerformanceTest(_, _, _)
firstFailingPerformanceTest(tests, results, j) ==
  IF j > Len(tests) THEN Null
  ELSE IF tests[j].expectedPerformance # results[j] THEN Some(j)
  ELSE firstFailingPerformanceTest(tests, results, j + 1)

\* Mutant: in a task the correctness tests are scanned before the
\* buggy-output tests.
RECURSIVE firstFailingTest_correctnessFirst(_, _, _)
firstFailingTest_correctnessFirst(taskList, evalResult, i) ==
  IF i > Len(taskList) THEN Case("completion", 0, 0)
  ELSE
    LET buggy == firstFailingBuggyOutputTest(
                   evalResult.buggyOutputTestResults[i], 1)
        correctness == firstFailingCorrectnessTest(
                         taskList[i].correctnessTests,
                         evalResult.correctnessTestResults[i], 1)
        performance == firstFailingPerformanceTest(
                         taskList[i].performanceTests,
                         evalResult.performanceTestResults[i], 1)
    IN IF correctness # Null THEN Case("correctness", i, correctness[1])
       ELSE IF buggy # Null THEN Case("buggyOutput", i, buggy[1])
       ELSE IF performance # Null THEN Case("performance", i, performance[1])
       ELSE firstFailingTest_correctnessFirst(taskList, evalResult, i + 1)

\* The loop over the tasks at lines 290-317, from task i: the test whose
\* feedback is returned (task and position 1-based), or "completion".
RECURSIVE firstFailingTest(_, _, _)
firstFailingTest(taskList, evalResult, i) ==
  IF i > Len(taskList) THEN Case("completion", 0, 0)
  ELSE
    LET buggy == firstFailingBuggyOutputTest(
                   evalResult.buggyOutputTestResults[i], 1)
        correctness == firstFailingCorrectnessTest(
                         taskList[i].correctnessTests,
                         evalResult.correctnessTestResults[i], 1)
        performance == firstFailingPerformanceTest(
                         taskList[i].performanceTests,
                         evalResult.performanceTestResults[i], 1)
    IN IF buggy # Null THEN Case("buggyOutput", i, buggy[1])
       ELSE IF correctness # Null THEN Case("correctness", i, correctness[1])
       ELSE IF performance # Null THEN Case("performance", i, performance[1])
       ELSE firstFailingTest(taskList, evalResult, i + 1)

TimeLimitErrorPrefix == <<"T", "i", "m", "e", "L", "i", "m", "i", "t", "E", "r", "r", "o", "r">>

RangeErrorPrefix ==
  <<"E", "x", "t", "e", "r", "n", "a", "l", "E", "r", "r", "o", "r", ":", " ", "R", "a", "n", "g", "e", "E", "r", "r", "o", "r">>

\* Mutant: a flagged buggy-output test is reported before the error string
\* is looked at.
selectCase_testsBeforeError(taskList, evalResult) ==
  IF /\ evalResult.buggyOutputTestResults # <<>>
     /\ firstFailingTest(taskList, evalResult, 1).kind = "buggyOutput"
  THEN firstFailingTest(taskList, evalResult, 1)
  ELSE IF evalResult.errorString # <<>>
  THEN IF startsWith(evalResult.errorString, TimeLimitErrorPrefix)
       THEN Case("timeout", 0, 0)
       ELSE IF startsWith(evalResult.errorString, RangeErrorPrefix)
       THEN Case("infiniteLoop", 0, 0)
       ELSE Case("runtimeError", 0, 0)
  ELSE firstFailingTest(taskList, evalResult, 1)

\* The branch of _getFeedbackWithoutReinforcement taken for an evaluation
\* result.
selectCase(taskList, evalResult) ==
  IF evalResult.errorString # <<>>
  THEN IF startsWith(evalResult.errorString, TimeLimitErrorPrefix)
       THEN Case("timeout", 0, 0)
       ELSE IF startsWith(evalResult.errorString, RangeErrorPrefix)
       THEN Case("infiniteLoop", 0, 0)
       ELSE Case("runtimeError", 0, 0)
  ELSE firstFailingTest(taskList, evalResult, 1)

\* The feedback built in the selected branch.
feedbackForCase(case, taskList, evalResult, lineIndexes, snapshots) ==
  CASE case.kind = "timeout" -> Ok(getTimeoutErrorFeedback)
    [] case.kind = "infiniteLoop" -> Ok(getInfiniteLoopFeedback)
    [] case.kind = "runtimeError" ->
         getRuntimeErrorFeedback(evalResult, lineIndexes)
    [] case.kind = "buggyOutput" ->
         Ok(getBuggyOutputTestFeedback(
              taskList[case.task].buggyOutputTests[case.position],
              evalResult, snapshots))
    [] case.kind = "correctness" ->
         getCorrectnessTestFeedback(
           taskList[case.task].outputFunctionName,
           taskList[case.task].correctnessTests[case.position],
           evalResult.correctnessTestResults[case.task][case.position])
    [] case.kind = "performance" ->
         Ok(getPerformanceTestFeedback(
              taskList[case.task].performanceTests[case.position]
                .expectedPerformance))
    [] case.kind = "completion" -> Ok(getCompletionFeedback)

getFeedbackWithoutReinforcement(taskList, evalResult, lineIndexes, snapshots) ==
  feedbackForCase(selectCase(taskList, evalResult), taskList, evalResult,
                  lineIndexes, snapshots)

\* Mutant: the reinforcement is asked for the first task.
reinforcementRequests_firstTask(taskList, evalResult) ==
  IF Len(taskList) > 0 /\ evalResult.errorString = <<>>
  THEN <<[task |-> taskList[1], codeEvalResult |-> evalResult]>>
  ELSE <<>>

\* The arguments of the calls of the reinforcement generator that getFeedback
\* makes.
reinforcementRequests(taskList, evalResult) ==
  IF Len(taskList) > 0 /\ evalResult.errorString = <<>>
  THEN <<[task |-> taskList[Len(taskList)], codeEvalResult |-> evalResult]>>
  ELSE <<>>

getFeedback(taskList, evalResult, lineIndexes, snapshots) ==
  LET feedback == getFeedbackWithoutReinforcement(
                    taskList, evalResult, lineIndexes, snapshots)
      requests == reinforcementRequests(taskList, evalResult)
  IN IF feedback.threw THEN feedback
     ELSE IF requests # <<>>
     THEN Ok(setReinforcement(feedback.val,
               getReinforcement(requests[1].task,
                                requests[1].codeEvalResult)))
     ELSE feedback

getSyntaxErrorFeedback(errorString) ==
  Ok(appendSyntaxErrorParagraph(FeedbackCreate(FALSE), errorString))

SUPPORTED_PYTHON_LIBS == <<"collections", "math", "operator">>

\* Mutant: a failure that is neither missing starter code nor a bad import is
\* taken for global code.
getPrereqFailureFeedback_defaultsToGlobalCode(prereqCheckFailure) ==
  IF prereqCheckFailure = Null
  THEN Throw("getPrereqFailureFeedback() called with 0 failures.")
  ELSE
    LET failure == prereqCheckFailure[1]
        feedback == FeedbackCreate(FALSE)
    IN CASE failure.type = "missingStarterCode" ->
              Ok(appendCodeParagraph(
                   appendTextParagraph(feedback,
                     Join(<<"It looks like you deleted or modified the starter code!  Our ",
                            "evaluation program requires the function names given in the ",
                            "starter code.  You can press the 'Reset Code' button to start ",
                            "over.  Or, you can copy the starter code below:">>)),
                   failure.starterCode))
         [] failure.type = "badImport" ->
              Ok(appendCodeParagraph(
                   appendTextParagraph(
                     appendCodeParagraph(
                       appendTextParagraph(feedback,
                         Join(<<"It looks like you're importing an external library. However, the ",
                                "following libraries are not supported:\n">>)),
                       JoinWith(failure.badImports, "\n")),
                     "Here is a list of libraries we currently support:\n"),
                   JoinWith(SUPPORTED_PYTHON_LIBS, ", ")))
         [] OTHER ->
              Ok(appendTextParagraph(feedback,
                   JoinWith(<<"Please keep your code within the existing predefined functions",
                              "-- we cannot process code in the global scope.">>, " ")))

getPrereqFailureFeedback(prereqCheckFailure) ==
  IF prereqCheckFailure = Null
  THEN Throw("getPrereqFailureFeedback() called with 0 failures.")
  ELSE
    LET failure == prereqCheckFailure[1]
        feedback == FeedbackCreate(FALSE)
    IN CASE failure.type = "missingStarterCode" ->
              Ok(appendCodeParagraph(
                   appendTextParagraph(feedback,
                     Join(<<"It looks like you deleted or modified the starter code!  Our ",
                            "evaluation program requires the function names given in the ",
                            "starter code.  You can press the 'Reset Code' button to start ",
                            "over.  Or, you can copy the starter code below:">>)),
                   failure.starterCode))
         [] failure.type = "badImport" ->
              Ok(appendCodeParagraph(
                   appendTextParagraph(
                     appendCodeParagraph(
                       appendTextParagraph(feedback,
                         Join(<<"It looks like you're importing an external library. However, the ",
                                "following libraries are not supported:\n">>)),
                       JoinWith(failure.badImports, "\n")),
                     "Here is a list of libraries we currently support:\n"),
                   JoinWith(SUPPORTED_PYTHON_LIBS, ", ")))
         [] failure.type = "globalCode" ->
              Ok(appendTextParagraph(feedback,
                   JoinWith(<<"Please keep your code within the existing predefined functions",
                              "-- we cannot process code in the global scope.">>, " ")))
         [] OTHER ->
              Throw(JoinWith(<<"Unrecognized prereq check failure type ",
                               "in getPrereqFailureFeedback().">>, ","))

-----------------------------------------------------------------------------
(* ErrorTraceback.                                                         *)

DigitChar(d) ==
  CASE d = 0 -> "0" [] d = 1 -> "1" [] d = 2 -> "2" [] d = 3 -> "3"
    [] d = 4 -> "4" [] d = 5 -> "5" [] d = 6 -> "6" [] d = 7 -> "7"
    [] d = 8 -> "8" [] d = 9 -> "9"

\* String(n) for a natural number, as characters.
RECURSIVE NumberChars(_)
NumberChars(n) ==
  IF n < 10 THEN <<DigitChar(n)>>
  ELSE NumberChars(n \div 10) \o <<DigitChar(n % 10)>>

getFirstTracebackLine(tracebackCoordinates) ==
  tracebackCoordinates[1].lineNumber

\* Mutant: the column of the first traceback coordinates follows the line.
getErrorString_withColumn(errorMessage, tracebackCoordinates) ==
  IF startsWith(errorMessage, TimeLimitErrorPrefix)
  THEN errorMessage
  ELSE errorMessage \o <<" ", "o", "n", " ", "l", "i", "n", "e", " ">> \o
       NumberChars(getFirstTracebackLine(tracebackCoordinates)) \o
       <<",", " ", "c", "o", "l", "u", "m", "n", " ">> \o
       NumberChars(tracebackCoordinates[1].columnNumber)

getErrorString(errorMessage, tracebackCoordinates) ==
  IF startsWith(errorMessage, TimeLimitErrorPrefix)
  THEN errorMessage
  ELSE errorMessage \o <<" ", "o", "n", " ", "l", "i", "n", "e", " ">> \o
       NumberChars(getFirstTracebackLine(tracebackCoordinates))

-----------------------------------------------------------------------------
(* The session: questions, sources and evaluation results.                 *)

forgetLastWord ==
  [buggyFunctionName |-> "AuxiliaryCode.forgetLastWord",
   messages |->
     <<"Try running your code on 'river ocean' on paper. What's the result?",
       "Are you sure that you're reversing all the words?",
       Join(<<"It looks like you're exiting the function without adding on the ",
              "last reversed word.">>)>>]

reverseString ==
  [buggyFunctionName |-> "AuxiliaryCode.reverseString",
   messages |->
     <<Join(<<"Whoops! It looks like you're reversing the entire string, but you ",
              "should only be reversing each word in turn, not their ordering. ",
              "Please check the given example, and try again.">>)>>]

\* A buggy-output test whose first hint is the first hint of forgetLastWord:
\* nothing keeps the tests of a question from sharing a hint.
forgetFirstWord ==
  [buggyFunctionName |-> "AuxiliaryCode.forgetFirstWord",
   messages |->
     <<"Try running your code on 'river ocean' on paper. What's the result?",
       "Are you sure that you're reversing the first word?">>]

shortString ==
  [input |-> JsString(<<"a", "b">>),
   allowedOutputs |-> <<JsString(<<"b", "a">>)>>]

whitespaceOnly ==
  [input |-> JsString(<<"\t", " ", " ">>),
   allowedOutputs |-> <<JsString(<<"\t", " ", " ">>)>>]

\* A correctness test with two allowed outputs.
eitherOrder ==
  [input |-> JsArray(<<JsNumber(2), JsNumber(1)>>),
   allowedOutputs |-> <<JsArray(<<JsNumber(1), JsNumber(2)>>),
                        JsArray(<<JsNumber(2), JsNumber(1)>>)>>]

linearTime == [expectedPerformance |-> "linear"]

constantTime == [expectedPerformance |-> "constant"]

Task(buggyOutputTests, correctnessTests, performanceTests, functionName) ==
  [buggyOutputTests |-> buggyOutputTests,
   correctnessTests |-> correctnessTests,
   performanceTests |-> performanceTests,
   outputFunctionName |-> functionName]

\* The tasks of the question reverseWords, with a second buggy-output test in
\* its first task.
reverseWords ==
  <<Task(<<forgetLastWord, forgetFirstWord>>, <<shortString>>, <<>>, Null),
    Task(<<reverseString>>, <<>>, <<linearTime>>, Null)>>

\* A question whose first task has no buggy-output test and names an output
\* function.
parseWords ==
  <<Task(<<>>, <<whitespaceOnly, eitherOrder>>, <<linearTime, constantTime>>,
         Some("parse")),
    Task(<<forgetLastWord>>, <<>>, <<>>, Null)>>

Questions == { <<>>, reverseWords, parseWords }

\* The preprocessed sources a student submits.
Sources == {"def f(s): return s", "def f(s): return s[::-1]"}

\* rawCodeLineIndexes of a preprocessed source: for each of its lines the
\* index of the raw line, or Null for a line of the test harness.
lineMap(source) ==
  IF source = "def f(s): return s" THEN <<Some(0), Null>>
  ELSE <<Null, Some(0), Some(4)>>

TracebackCoordinates(lineNumber, columnNumber) ==
  [lineNumber |-> lineNumber, columnNumber |-> columnNumber]

\* The error tracebacks of the runs: an error in each line 0..MaxLineNumber,
\* a timeout, a stack overflow and an error whose message holds the timeout
\* marker after its start.
ErrorTracebacks ==
  { [errorMessage |-> <<"Z", "e", "r", "o", "D", "i", "v", "i", "s", "i", "o", "n", "E", "r", "r", "o", "r">>,
     tracebackCoordinates |-> <<TracebackCoordinates(n, 1)>>] :
      n \in 0..MaxLineNumber }
  \cup
  { [errorMessage |-> TimeLimitErrorPrefix,
     tracebackCoordinates |-> <<TracebackCoordinates(1, 1)>>],
    [errorMessage |-> RangeErrorPrefix,
     tracebackCoordinates |-> <<TracebackCoordinates(1, 1)>>],
    [errorMessage |-> <<"K", "e", "y", "E", "r", "r", "o", "r", ":", " ", "T", "i", "m", "e", "L", "i", "m", "i", "t", "E", "r", "r", "o", "r">>,
     tracebackCoordinates |-> <<TracebackCoordinates(2, 1)>>] }

\* Error strings that are not made by ErrorTraceback.getErrorString: without
\* a line reference, a timeout with one, a line number with a leading zero
\* and a line reference that is not at the end.
OtherErrorStrings ==
  { <<"Z", "e", "r", "o", "D", "i", "v", "i", "s", "i", "o", "n", "E", "r", "r", "o", "r">>,
    <<"T", "i", "m", "e", "L", "i", "m", "i", "t", "E", "r", "r", "o", "r", " ", "o", "n", " ", "l", "i", "n", "e", " ", "1">>,
    <<"K", "e", "y", "E", "r", "r", "o", "r", " ", "o", "n", " ", "l", "i", "n", "e", " ", "0", "2">>,
    <<"K", "e", "y", "E", "r", "r", "o", "r", " ", "o", "n", " ", "l", "i", "n", "e", " ", "1", " ">> }

ErrorStrings ==
  { getErrorString(t.errorMessage, t.tracebackCoordinates) :
      t \in ErrorTracebacks }
  \cup OtherErrorStrings

ErrorInputs == { JsNull, JsArray(<<JsNumber(1), JsString(<<"a", "\n">>)>>) }

WrongOutput == JsString(<<"?">>)

PerformanceClasses == {"constant", "linear"}

\* The sequences whose k-th element is in the k-th set.
RECURSIVE Product(_)
Product(sets) ==
  IF sets = <<>> THEN {<<>>}
  ELSE { <<h>> \o t : h \in Head(sets), t \in Product(Tail(sets)) }

BuggyOutputTestResults(taskList) ==
  Product([i \in DOMAIN taskList |->
             [DOMAIN taskList[i].buggyOutputTests -> BOOLEAN]])

CorrectnessTestResults(taskList) ==
  Product([i \in DOMAIN taskList |->
     Product([j \in DOMAIN taskList[i].correctnessTests |->
        LET allowed == taskList[i].correctnessTests[j].allowedOutputs
        IN {allowed[Len(allowed)], WrongOutput}])])

PerformanceTestResults(taskList) ==
  Product([i \in DOMAIN taskList |->
             [DOMAIN taskList[i].performanceTests -> PerformanceClasses]])

CodeEvalResult(code, errorString, errorInput, buggy, correctness, performance) ==
  [preprocessedCode |-> code, errorString |-> errorString,
   errorInput |-> errorInput, buggyOutputTestResults |-> buggy,
   correctnessTestResults |-> correctness,
   performanceTestResults |-> performance]

\* The results of running a source without an error: every combination of
\* test results, aligned with the tests of the tasks.
PassingRuns(taskList, source) ==
  { CodeEvalResult(source, <<>>, JsNull, b, c, p) :
      b \in BuggyOutputTestResults(taskList),
      c \in CorrectnessTestResults(taskList),
      p \in PerformanceTestResults(taskList) }

\* The results of a run that ended in an error: without test results, or
\* with the results of the tests that ran before the error (here: all of
\* them, every buggy-output test flagged).
FailedRuns(taskList, source) ==
  { CodeEvalResult(source, e, input, <<>>, <<>>, <<>>) :
      e \in ErrorStrings, input \in ErrorInputs }
  \cup
  { [r EXCEPT !.errorString = e, !.errorInput = JsNull] :
      e \in ErrorStrings,
      r \in { p \in PassingRuns(taskList, source) :
                \A i \in DOMAIN taskList :
                  /\ \A j \in DOMAIN p.buggyOutputTestResults[i] :
                       p.buggyOutputTestResults[i][j]
                  /\ \A j \in DOMAIN p.correctnessTestResults[i] :
                       p.correctnessTestResults[i][j] = WrongOutput
                  /\ \A j \in DOMAIN p.performanceTestResults[i] :
                       p.performanceTestResults[i][j] = "constant" } }

EvalResults(taskList, source) ==
  PassingRuns(taskList, source) \cup FailedRuns(taskList, source)

\* The evaluation results a submission to a question can have.
Runs ==
  [taskList \in Questions |->
     UNION { EvalResults(taskList, source) : source \in Sources }]

\* Those without an error, by source.
PassingRunsOf ==
  [taskList \in Questions |->
     [source \in Sources |-> PassingRuns(taskList, source)]]

-----------------------------------------------------------------------------
(* The state machine.                                                      *)

NoCall == [op |-> "none"]

NoResult == Throw("no operation was called")

\* TranscriptService.recordSnapshot.  The model keeps the most recent
\* snapshot only: the code never reads an older one.
recordSnapshot(snapshots, evalResult, feedback) ==
  <<Snapshot(evalResult, feedback)>>

Init ==
  /\ tasks \in Questions
  /\ transcript = <<>>
  /\ pc = "idle"
  /\ call = NoCall
  /\ selected = Case("none", 0, 0)
  /\ result = NoResult
  /\ reinforcementCalls = <<>>

Returned(returned) == IF returned.threw THEN "threw" ELSE "returned"

\* Mutant: on the hint path the hint index is set on the feedback of the
\* most recent snapshot too.
CallGetFeedback_writesPreviousFeedback(evalResult) ==
  /\ \E returned \in {getFeedback(tasks, evalResult,
                                   lineMap(evalResult.preprocessedCode),
                                   transcript)} :
       /\ call' = [op |-> "getFeedback", codeEvalResult |-> evalResult,
                   rawCodeLineIndexes |->
                     lineMap(evalResult.preprocessedCode)]
       /\ selected' = selectCase(tasks, evalResult)
       /\ result' = returned
       /\ reinforcementCalls' =
            IF returned.threw THEN <<>>
            ELSE reinforcementRequests(tasks, evalResult)
       /\ pc' = Returned(returned)
       /\ transcript' =
            IF /\ ~returned.threw
               /\ returned.val.hintIndex # Null
               /\ transcript # <<>>
            THEN [transcript EXCEPT
                    ![Len(transcript)].feedback.hintIndex =
                      returned.val.hintIndex]
            ELSE transcript
  /\ UNCHANGED tasks

\* getFeedback is called with the evaluation result of a submission and
\* returns or throws.
CallGetFeedback(evalResult) ==
  /\ \E returned \in {getFeedback(tasks, evalResult,
                                   lineMap(evalResult.preprocessedCode),
                                   transcript)} :
       /\ call' = [op |-> "getFeedback", codeEvalResult |-> evalResult,
                   rawCodeLineIndexes |->
                     lineMap(evalResult.preprocessedCode)]
       /\ selected' = selectCase(tasks, evalResult)
       /\ result' = returned
       /\ reinforcementCalls' =
            IF returned.threw THEN <<>>
            ELSE reinforcementRequests(tasks, evalResult)
       /\ pc' = Returned(returned)
  /\ UNCHANGED <<tasks, transcript>>

\* A submission was run and getFeedback is called with its evaluation result.
GetFeedback ==
  /\ pc = "idle"
  /\ \E evalResult \in Runs[tasks] : CallGetFeedback(evalResult)

SyntaxErrorStrings == {"SyntaxError: bad input on line 1"}

\* A submission did not compile and getSyntaxErrorFeedback is called.
GetSyntaxErrorFeedback ==
  /\ pc = "idle"
  /\ \E source \in Sources, errorString \in SyntaxErrorStrings :
       /\ call' = [op |-> "getSyntaxErrorFeedback",
                   errorString |-> errorString,
                   codeEvalResult |->
                     Some(CodeEvalResult(source, <<"S">>, JsNull,
                                         <<>>, <<>>, <<>>))]
       /\ result' = getSyntaxErrorFeedback(errorString)
  /\ selected' = Case("syntaxError", 0, 0)
  /\ reinforcementCalls' = <<>>
  /\ pc' = "returned"
  /\ UNCHANGED <<tasks, transcript>>

PrereqCheckFailure(type, badImports, starterCode) ==
  [type |-> type, badImports |-> badImports, starterCode |-> starterCode]

PrereqCheckFailures ==
  { Null,
    Some(PrereqCheckFailure("missingStarterCode", <<>>,
                            "def reverseWords(s):")),
    Some(PrereqCheckFailure("badImport", <<"numpy", "pandas">>, "")),
    Some(PrereqCheckFailure("globalCode", <<>>, "")),
    Some(PrereqCheckFailure("unknown", <<>>, "")) }

\* A submission failed the prerequisite check and getPrereqFailureFeedback
\* is called.
GetPrereqFailureFeedback ==
  /\ pc = "idle"
  /\ \E failure \in PrereqCheckFailures :
       \E returned \in {getPrereqFailureFeedback(failure)} :
         /\ call' = [op |-> "getPrereqFailureFeedback",
                     prereqCheckFailure |-> failure,
                     codeEvalResult |-> Null]
         /\ result' = returned
         /\ pc' = Returned(returned)
  /\ selected' = Case("prereqFailure", 0, 0)
  /\ reinforcementCalls' = <<>>
  /\ UNCHANGED <<tasks, transcript>>

\* The caller records the snapshot of the submission: its evaluation result
\* (Null after a failed prerequisite check) and the feedback returned.
RecordSnapshot ==
  /\ pc = "returned"
  /\ transcript' =
       recordSnapshot(transcript,
                      IF call.op = "getFeedback"
                      THEN Some(call.codeEvalResult)
                      ELSE call.codeEvalResult,
                      result.val)
  /\ pc' = "idle"
  /\ call' = NoCall
  /\ selected' = Case("none", 0, 0)
  /\ result' = NoResult
  /\ reinforcementCalls' = <<>>
  /\ UNCHANGED tasks

\* The operation threw: the error reaches the caller and nothing is recorded.
Fail ==
  /\ pc = "threw"
  /\ pc' = "idle"
  /\ call' = NoCall
  /\ selected' = Case("none", 0, 0)
  /\ result' = NoResult
  /\ reinforcementCalls' = <<>>
  /\ UNCHANGED <<tasks, transcript>>

Next ==
  \/ GetFeedback
  \/ GetSyntaxErrorFeedback
  \/ GetPrereqFailureFeedback
  \/ RecordSnapshot
  \/ Fail

Spec == Init /\ [][Next]_vars

-----------------------------------------------------------------------------
(* Vocabulary of the properties.                                           *)

\* getFeedback was called and has returned or thrown.
FeedbackCalled == call.op = "getFeedback" /\ pc # "idle"

FeedbackReturned == call.op = "getFeedback" /\ pc = "returned"

NoError == call.codeEvalResult.errorString = <<>>

TestsOf(task, kind) ==
  CASE kind = "buggyOutput" -> task.buggyOutputTests
    [] kind = "correctness" -> task.correctnessTests
    [] kind = "performance" -> task.performanceTests

\* The tests of a task list, each by its place (kind, task, position).
Tests(taskList) ==
  UNION { { Case(kind, i, j) : j \in DOMAIN TestsOf(taskList[i], kind) } :
            i \in DOMAIN taskList,
            kind \in {"buggyOutput", "correctness", "performance"} }

\* What failing means for each kind of test.
Fails(t, taskList, evalResult) ==
  CASE t.kind = "buggyOutput" ->
         evalResult.buggyOutputTestResults[t.task][t.position]
    [] t.kind = "correctness" ->
         \A k \in DOMAIN taskList[t.task].correctnessTests[t.position]
                           .allowedOutputs :
           taskList[t.task].correctnessTests[t.position].allowedOutputs[k]
             # evalResult.correctnessTestResults[t.task][t.position]
    [] t.kind = "performance" ->
         taskList[t.task].performanceTests[t.position].expectedPerformance
           # evalResult.performanceTestResults[t.task][t.position]

KindRank(kind) ==
  CASE kind = "buggyOutput" -> 1 [] kind = "correctness" -> 2
    [] kind = "performance" -> 3

\* The sequential order: by task, then buggy-output, correctness and
\* performance tests, then by position.
Precedes(t, u) ==
  \/ t.task < u.task
  \/ t.task = u.task /\ KindRank(t.kind) < KindRank(u.kind)
  \/ t.task = u.task /\ t.kind = u.kind /\ t.position < u.position

FailingTests(taskList, evalResult) ==
  { t \in Tests(taskList) : Fails(t, taskList, evalResult) }

\* The first failing test in the sequential order, or "completion".
FirstInOrder(taskList, evalResult) ==
  LET failing == FailingTests(taskList, evalResult)
  IN IF failing = {} THEN Case("completion", 0, 0)
     ELSE CHOOSE t \in failing : \A u \in failing : u = t \/ Precedes(t, u)

\* The flagged buggy-output tests and the first of them, by task and position.
FlaggedTests(taskList, evalResult) ==
  { t \in FailingTests(taskList, evalResult) : t.kind = "buggyOutput" }

FirstFlagged(taskList, evalResult) ==
  CHOOSE t \in FlaggedTests(taskList, evalResult) :
    \A u \in FlaggedTests(taskList, evalResult) : u = t \/ Precedes(t, u)

\* A feedback is the hint feedback of a buggy-output test: not complete, one
\* prose paragraph, the hint of the test at the feedback's hint index.
IsHintFeedbackOf(feedback, test) ==
  /\ ~feedback.isAnswerCorrect
  /\ feedback.hintIndex # Null
  /\ feedback.hintIndex[1] \in 0..(Len(test.messages) - 1)
  /\ feedback.paragraphs =
       <<[type |-> "text",
          content |-> test.messages[feedback.hintIndex[1] + 1]]>>

TestAt(taskList, t) == TestsOf(taskList[t.task], t.kind)[t.position]

-----------------------------------------------------------------------------
(* C1: for an evaluation result with no error string, if some buggy-output *)
(* test of some task is flagged, getFeedback returns the hint feedback of  *)
(* the first flagged test, whatever the index of its task (also when an    *)
(* earlier task has a failing correctness or performance test).  This is   *)
(* the claim as stated; the scan is task by task, so it does not hold.     *)
C1_BuggyOutputFirstInAnyTask ==
  (FeedbackCalled /\ NoError
     /\ FlaggedTests(tasks, call.codeEvalResult) # {})
  => /\ pc = "returned"
     /\ selected = FirstFlagged(tasks, call.codeEvalResult)
     /\ IsHintFeedbackOf(result.val,
          TestAt(tasks, FirstFlagged(tasks, call.codeEvalResult)))

\* No correctness or performance test of a task before task i fails.
EarlierTasksPass(taskList, evalResult, i) ==
  \A t \in FailingTests(taskList, evalResult) :
    t.kind # "buggyOutput" => t.task >= i

(* C1, amended: for an evaluation result with no error string, if some     *)
(* buggy-output test is flagged and no correctness or performance test of  *)
(* a task before the task of the first flagged test fails, getFeedback     *)
(* returns the hint feedback of the first flagged test, and never          *)
(* correctness or performance feedback.                                    *)
C1_BuggyOutputFirstInScanOrder ==
  (FeedbackCalled /\ NoError
     /\ FlaggedTests(tasks, call.codeEvalResult) # {}
     /\ EarlierTasksPass(tasks, call.codeEvalResult,
          FirstFlagged(tasks, call.codeEvalResult).task))
  => /\ pc = "returned"
     /\ selected = FirstFlagged(tasks, call.codeEvalResult)
     /\ IsHintFeedbackOf(result.val,
          TestAt(tasks, FirstFlagged(tasks, call.codeEvalResult)))

\* Witness: the first task passes, a buggy-output test of the second task is
\* flagged and a performance test of the second task fails: the hint of the
\* flagged test is returned.
C1_Witness ==
  /\ FeedbackReturned /\ NoError
  /\ FlaggedTests(tasks, call.codeEvalResult) # {}
  /\ FirstFlagged(tasks, call.codeEvalResult).task = 2
  /\ EarlierTasksPass(tasks, call.codeEvalResult, 2)
  /\ \E t \in FailingTests(tasks, call.codeEvalResult) :
       t.kind = "performance" /\ t.task = 2
  /\ result.val.hintIndex # Null

(* C2: for an evaluation result with no error string, the feedback         *)
(* returned is the one of the first failing test in the sequential order   *)
(* (tasks ascending; in a task the buggy-output tests, then the            *)
(* correctness tests, then the performance tests, each by position), and   *)
(* no test later in that order influences the selected case: every         *)
(* evaluation result that agrees on the tests up to the first failing one  *)
(* selects the same case.                                                  *)
C2_FirstFailingTestInOrder ==
  (FeedbackCalled /\ NoError)
  => LET first == FirstInOrder(tasks, call.codeEvalResult)
     IN /\ selected = first
        /\ pc = "returned"
        /\ CASE first.kind = "buggyOutput" ->
                  IsHintFeedbackOf(result.val, TestAt(tasks, first))
             [] first.kind = "correctness" ->
                  /\ Len(result.val.paragraphs) = 5
                  /\ result.val.paragraphs[4].content =
                       jsToHumanReadable(
                         TestAt(tasks, first).allowedOutputs[1]).val
                  /\ result.val.hintIndex = Null
             [] first.kind = "performance" ->
                  /\ result.val.paragraphs =
                       getPerformanceTestFeedback(
                         TestAt(tasks, first).expectedPerformance).paragraphs
                  /\ result.val.hintIndex = Null
             [] first.kind = "completion" -> result.val.isAnswerCorrect
        /\ \A other \in PassingRunsOf[tasks][call.codeEvalResult.preprocessedCode] :
             (/\ other.errorString = <<>>
              /\ \A t \in Tests(tasks) :
                   (t = first \/ Precedes(t, first) \/ first.kind = "completion")
                   => (Fails(t, tasks, other)
                         <=> Fails(t, tasks, call.codeEvalResult)))
             => selectCase(tasks, other) = first

\* Witness: a performance test at the second position is the first failing
\* test, and a test later in the order (in the second task) fails too.
C2_Witness ==
  /\ FeedbackReturned /\ NoError
  /\ selected.kind = "performance" /\ selected.position = 2
  /\ \E t \in FailingTests(tasks, call.codeEvalResult) :
       Precedes(selected, t)

-----------------------------------------------------------------------------
(* Hint escalation.                                                        *)

\* The branch taken for the submission of the most recent snapshot, which is
\* the one the operation in progress read.
PreviousCase ==
  IF transcript = <<>> \/ transcript[1].codeEvalResult = Null
  THEN Case("none", 0, 0)
  ELSE IF transcript[1].feedback.paragraphs[1].type = "error"
  THEN Case("syntaxError", 0, 0)
  ELSE selectCase(tasks, transcript[1].codeEvalResult[1])

HintReturned == FeedbackReturned /\ selected.kind = "buggyOutput"

\* The previous submission was detected as the same buggy-output test as the
\* current one.
SameTestAsPrevious ==
  /\ PreviousCase.kind = "buggyOutput"
  /\ TestAt(tasks, PreviousCase).buggyFunctionName =
       TestAt(tasks, selected).buggyFunctionName

SameSourceAsPrevious ==
  transcript[1].codeEvalResult[1].preprocessedCode =
    call.codeEvalResult.preprocessedCode

(* C3: over consecutive submissions all detected as the same buggy-output  *)
(* test, each with a preprocessed source different from the one before,    *)
(* the hint index starts at 0 (the submission before the first one was not *)
(* detected as this test), goes up by exactly one per submission until it  *)
(* is the index of the last hint of the test, and stays there.             *)
C3_HintIndexOverRun ==
  HintReturned
  => LET last == Len(TestAt(tasks, selected).messages) - 1
         hintIndex == result.val.hintIndex[1]
     IN IF SameTestAsPrevious
        THEN ~SameSourceAsPrevious
             => LET previous == transcript[1].feedback.hintIndex[1]
                IN hintIndex = IF previous = last THEN last ELSE previous + 1
        ELSE hintIndex = 0

(* C4: a submission detected as buggy-output test B that follows a         *)
(* submission of the same preprocessed source detected as B gets the hint  *)
(* index and the hint text of that submission.                             *)
C4_SameSourceSameHint ==
  (HintReturned /\ SameTestAsPrevious /\ SameSourceAsPrevious)
  => /\ result.val.hintIndex = transcript[1].feedback.hintIndex
     /\ result.val.paragraphs[1].content =
          transcript[1].feedback.paragraphs[1].content

\* Witness: the same source is resubmitted at hint 1 of a test with three
\* hints, and hint 1 is given again.
C4_Witness ==
  /\ HintReturned /\ SameTestAsPrevious /\ SameSourceAsPrevious
  /\ Len(TestAt(tasks, selected).messages) = 3
  /\ transcript[1].feedback.hintIndex = Some(1)
  /\ result.val.hintIndex = Some(1)

(* C5: when the buggy-output test detected in the current submission is    *)
(* another test than the one whose hint the previous feedback gave, the    *)
(* hint index of the current feedback is 0.                                *)
C5_ResetOnDifferentTest ==
  (/\ HintReturned
   /\ PreviousCase.kind = "buggyOutput"
   /\ TestAt(tasks, PreviousCase).buggyFunctionName #
        TestAt(tasks, selected).buggyFunctionName)
  => result.val.hintIndex = Some(0)

-----------------------------------------------------------------------------
(* Errors.                                                                 *)

HasPrefix(chars, prefix) ==
  /\ Len(chars) >= Len(prefix)
  /\ \A k \in 1..Len(prefix) : chars[k] = prefix[k]

TimeoutParagraphs ==
  <<[type |-> "text",
     content |-> "Your program's exceeded the time limit (" \o
                 ToString(CODE_EXECUTION_TIMEOUT_SECONDS) \o
                 " seconds) we've set. Can you try to make it run " \o
                 "more efficiently?"]>>

InfiniteLoopParagraphs ==
  <<[type |-> "text",
     content |-> "Looks like your code is hitting an infinite recursive " \o
                 "loop. Check to see that your recursive calls terminate."]>>

SameResult(r1, r2) == r1.threw = r2.threw /\ r1.val = r2.val

(* C6: with a non-empty error string the feedback depends on the error     *)
(* string only (and on the error input and the line map): an evaluation    *)
(* result with the same error string and error input and any other test    *)
(* results gets the same feedback; an error string that starts             *)
(* with the timeout marker gets exactly the timeout paragraph with the     *)
(* configured time limit.                                                  *)
C6_ErrorIgnoresTestResults ==
  (FeedbackCalled /\ ~NoError)
  => /\ \A other \in PassingRunsOf[tasks][call.codeEvalResult.preprocessedCode] :
          other.errorString = <<>>
          => SameResult(
               getFeedback(
                 tasks,
                 [other EXCEPT
                    !.errorString = call.codeEvalResult.errorString,
                    !.errorInput = call.codeEvalResult.errorInput],
                 call.rawCodeLineIndexes, transcript),
               result)
     /\ HasPrefix(call.codeEvalResult.errorString, TimeLimitErrorPrefix)
        => /\ pc = "returned"
           /\ result.val.paragraphs = TimeoutParagraphs
           /\ ~result.val.isAnswerCorrect
           /\ result.val.hintIndex = Null

\* Witness: a timeout whose evaluation result flags a buggy-output test.
C6_Witness ==
  /\ FeedbackReturned /\ ~NoError
  /\ tasks # <<>>
  /\ call.codeEvalResult.buggyOutputTestResults # <<>>
  /\ FlaggedTests(tasks, call.codeEvalResult) # {}
  /\ result.val.paragraphs = TimeoutParagraphs

(* C7: a non-empty error string is a timeout if it starts with             *)
(* 'TimeLimitError', else an infinite recursion if it starts with          *)
(* 'ExternalError: RangeError', else a runtime error; the three cases give *)
(* pairwise different messages and an error string gets one of them only.  *)
C7_ErrorClassification ==
  (FeedbackCalled /\ ~NoError)
  => /\ selected.kind =
          IF HasPrefix(call.codeEvalResult.errorString, TimeLimitErrorPrefix)
          THEN "timeout"
          ELSE IF HasPrefix(call.codeEvalResult.errorString, RangeErrorPrefix)
          THEN "infiniteLoop"
          ELSE "runtimeError"
     /\ TimeoutParagraphs # InfiniteLoopParagraphs
     /\ pc = "returned"
        => CASE selected.kind = "timeout" ->
                  result.val.paragraphs = TimeoutParagraphs
             [] selected.kind = "infiniteLoop" ->
                  result.val.paragraphs = InfiniteLoopParagraphs
             [] selected.kind = "runtimeError" ->
                  /\ Len(result.val.paragraphs) = 2
                  /\ result.val.paragraphs[2].type = "code"
                  /\ result.val.paragraphs # TimeoutParagraphs
                  /\ result.val.paragraphs # InfiniteLoopParagraphs
     /\ pc = "threw" => selected.kind = "runtimeError"

\* Witness: an error string that holds the timeout marker, not at its
\* start, is a runtime error.
C7_Witness ==
  /\ FeedbackReturned /\ ~NoError
  /\ ~HasPrefix(call.codeEvalResult.errorString, TimeLimitErrorPrefix)
  /\ \E k \in 2..Len(call.codeEvalResult.errorString) :
       HasPrefix(SubSeq(call.codeEvalResult.errorString, k,
                        Len(call.codeEvalResult.errorString)),
                 TimeLimitErrorPrefix)
  /\ Len(result.val.paragraphs) = 2

-----------------------------------------------------------------------------
(* Completion and reinforcement.                                           *)

(* C8: the feedback getFeedback returns has its completion flag set if and *)
(* only if the evaluation result has no error string and no buggy-output,  *)
(* correctness or performance test of any task fails; an empty task list   *)
(* with no error gives completion.                                         *)
C8_CompletionFlag ==
  FeedbackReturned
  => (result.val.isAnswerCorrect
        <=> /\ NoError
            /\ FailingTests(tasks, call.codeEvalResult) = {})

\* Witness: completion for an empty task list.
C8_Witness ==
  /\ FeedbackReturned /\ NoError
  /\ tasks = <<>>
  /\ result.val.isAnswerCorrect

(* C9: getFeedback asks the reinforcement generator, and attaches what it  *)
(* returns, if and only if the task list is not empty and the evaluation   *)
(* result has no error string; it asks for the last task of the list and   *)
(* the evaluation result, whatever the feedback case.                      *)
C9_Reinforcement ==
  FeedbackCalled
  => IF Len(tasks) > 0 /\ NoError
     THEN /\ pc = "returned"
          /\ reinforcementCalls =
               <<[task |-> tasks[Len(tasks)],
                  codeEvalResult |-> call.codeEvalResult]>>
          /\ result.val.reinforcement =
               Some(getReinforcement(tasks[Len(tasks)],
                                     call.codeEvalResult))
     ELSE /\ reinforcementCalls = <<>>
          /\ pc = "returned" => result.val.reinforcement = Null

\* Witness: a failing test of the first of two tasks, and the reinforcement
\* of the second task is attached.
C9_Witness ==
  /\ FeedbackReturned /\ NoError
  /\ Len(tasks) = 2
  /\ selected.task = 1
  /\ tasks[1] # tasks[2]
  /\ result.val.reinforcement # Null
  /\ result.val.reinforcement[1].task = tasks[2]

-----------------------------------------------------------------------------
(* The line reference of a runtime error.                                  *)

\* The error text ends with 'line N': the place where 'line ' starts.
LineReferences(chars) ==
  { k \in 1..Len(chars) :
      /\ k + 5 <= Len(chars)
      /\ SubSeq(chars, k, k + 4) = <<"l", "i", "n", "e", " ">>
      /\ \A m \in (k + 5)..Len(chars) : chars[m] \in Digits }

(* C10: in runtime-error feedback, when the error text ends with 'line N'  *)
(* and N-1 is an index of the line map, the reference is replaced by       *)
(* 'a line in the test code' if the entry at N-1 is the harness sentinel,  *)
(* else by 'line M' with M the entry plus one; the text before it is       *)
(* unchanged and it is the code paragraph that follows one prose           *)
(* paragraph.                                                              *)
C10_LineReferenceRemapped ==
  (FeedbackCalled /\ selected.kind = "runtimeError")
  => \A k \in LineReferences(call.codeEvalResult.errorString) :
       LET text == call.codeEvalResult.errorString
           n == Number(SubSeq(text, k + 5, Len(text)))
           map == call.rawCodeLineIndexes
       IN (n - 1 >= 0 /\ n - 1 < Len(map))
          => /\ pc = "returned"
             /\ Len(result.val.paragraphs) = 2
             /\ result.val.paragraphs[1].type = "text"
             /\ result.val.paragraphs[2] =
                  [type |-> "code",
                   content |->
                     Join(SubSeq(text, 1, k - 1)) \o
                     (IF map[n] = Null THEN "a line in the test code"
                      ELSE "line " \o ToString(map[n][1] + 1))]

\* Witness: the line reported is a line of the test harness.
C10_Witness ==
  /\ FeedbackReturned /\ selected.kind = "runtimeError"
  /\ \E k \in LineReferences(call.codeEvalResult.errorString) :
       LET text == call.codeEvalResult.errorString
           n == Number(SubSeq(text, k + 5, Len(text)))
       IN /\ n - 1 >= 0 /\ n - 1 < Len(call.rawCodeLineIndexes)
          /\ call.rawCodeLineIndexes[n] = Null
          /\ result.val.paragraphs[2].content =
               Join(SubSeq(text, 1, k - 1)) \o "a line in the test code"

(* C11: in the runtime-error case, when the error text ends with 'line N'  *)
(* and N-1 is below 0 or not below the length of the line map, getFeedback *)
(* throws 'Line number index out of range: ' with N-1 and returns no       *)
(* feedback, whatever the test results of the evaluation result are.       *)
C11_UnmappedLineThrows ==
  (FeedbackCalled /\ selected.kind = "runtimeError")
  => \A k \in LineReferences(call.codeEvalResult.errorString) :
       LET text == call.codeEvalResult.errorString
           n == Number(SubSeq(text, k + 5, Len(text)))
       IN (n - 1 < 0 \/ n - 1 >= Len(call.rawCodeLineIndexes))
          => /\ pc = "threw"
             /\ result = Throw("Line number index out of range: " \o
                               ToString(n - 1))

\* Witness: the line reported is past the end of the line map, in an
\* evaluation result that flags a buggy-output test.
C11_Witness ==
  /\ FeedbackCalled /\ selected.kind = "runtimeError"
  /\ pc = "threw"
  /\ call.codeEvalResult.buggyOutputTestResults # <<>>
  /\ FlaggedTests(tasks, call.codeEvalResult) # {}
  /\ \E k \in LineReferences(call.codeEvalResult.errorString) :
       Number(SubSeq(call.codeEvalResult.errorString, k + 5,
                     Len(call.codeEvalResult.errorString))) - 1
         >= Len(call.rawCodeLineIndexes)

(* C12: for every error string that ErrorTraceback.getErrorString makes    *)
(* from a message that is not a timeout, and that is handled as a runtime  *)
(* error, the trace shown is the message followed by ' on ' and the mapped *)
(* line: 'line M' with M the raw line of the reported line plus one, or    *)
(* 'a line in the test code'; when the reported line has no entry in the   *)
(* line map nothing is shown.  The reported line itself is never shown     *)
(* unmapped.                                                               *)
C12_NoEvaluatorLineShown ==
  (FeedbackCalled /\ selected.kind = "runtimeError")
  => \A t \in ErrorTracebacks :
       (/\ ~HasPrefix(t.errorMessage, TimeLimitErrorPrefix)
        /\ call.codeEvalResult.errorString =
             getErrorString(t.errorMessage, t.tracebackCoordinates))
       => LET n == t.tracebackCoordinates[1].lineNumber
              map == call.rawCodeLineIndexes
          IN IF n \in DOMAIN map
             THEN /\ pc = "returned"
                  /\ result.val.paragraphs[2].content =
                       Join(t.errorMessage) \o " on " \o
                       (IF map[n] = Null THEN "a line in the test code"
                        ELSE "line " \o ToString(map[n][1] + 1))
             ELSE pc = "threw"

\* Witness: the evaluator reports line 3, which is raw line 5.
C12_Witness ==
  /\ FeedbackReturned /\ selected.kind = "runtimeError"
  /\ \E t \in ErrorTracebacks :
       /\ call.codeEvalResult.errorString =
            getErrorString(t.errorMessage, t.tracebackCoordinates)
       /\ t.tracebackCoordinates[1].lineNumber = 3
       /\ result.val.paragraphs[2].content =
            Join(t.errorMessage) \o " on line 5"

-----------------------------------------------------------------------------
(* A session with its history: the transcript keeps the MaxHistory most    *)
(* recent snapshots of a session on the question reverseWords, over few    *)
(* submissions.                                                            *)

MaxHistory == 3

\* TranscriptService.recordSnapshot: the snapshot is added at the end; the
\* oldest one is dropped from a full history.
appendSnapshot(snapshots, evalResult, feedback) ==
  LET all == Append(snapshots, Snapshot(evalResult, feedback))
  IN IF Len(all) > MaxHistory THEN Tail(all) ELSE all

\* The submissions of the session: with either source, the first buggy-output
\* test is flagged and nothing else fails; with the first source, the
\* correctness test fails, or the run ends in a runtime error.
HistoryRuns ==
  { r \in Runs[reverseWords] :
      \/ /\ r.errorString = <<>>
         /\ FailingTests(reverseWords, r) = {Case("buggyOutput", 1, 1)}
      \/ /\ r.errorString = <<>>
         /\ r.preprocessedCode = "def f(s): return s"
         /\ FailingTests(reverseWords, r) = {Case("correctness", 1, 1)}
      \/ /\ r.errorString =
              getErrorString(
                <<"Z", "e", "r", "o", "D", "i", "v", "i", "s", "i", "o", "n", "E", "r", "r", "o", "r">>,
                <<TracebackCoordinates(1, 1)>>)
         /\ r.preprocessedCode = "def f(s): return s"
         /\ r.errorInput = JsNull
         /\ r.buggyOutputTestResults = <<>> }

HistoryInit ==
  /\ tasks = reverseWords
  /\ transcript = <<>>
  /\ pc = "idle"
  /\ call = NoCall
  /\ selected = Case("none", 0, 0)
  /\ result = NoResult
  /\ reinforcementCalls = <<>>

HistoryGetFeedback ==
  /\ pc = "idle"
  /\ \E evalResult \in HistoryRuns : CallGetFeedback(evalResult)

HistoryRecordSnapshot ==
  /\ pc = "returned"
  /\ transcript' =
       appendSnapshot(transcript,
                      IF call.op = "getFeedback"
                      THEN Some(call.codeEvalResult)
                      ELSE call.codeEvalResult,
                      result.val)
  /\ pc' = "idle"
  /\ call' = NoCall
  /\ selected' = Case("none", 0, 0)
  /\ result' = NoResult
  /\ reinforcementCalls' = <<>>
  /\ UNCHANGED tasks

HistoryNext ==
  \/ HistoryGetFeedback
  \/ GetSyntaxErrorFeedback
  \/ GetPrereqFailureFeedback
  \/ HistoryRecordSnapshot
  \/ Fail

HistorySpec == HistoryInit /\ [][HistoryNext]_vars

\* The most recent snapshot of a non-empty history.
LastSnapshot == transcript[Len(transcript)]

(* C13: the feedback of getFeedback is determined by the tasks, the        *)
(* evaluation result, the line map and the most recent snapshot: with any  *)
(* other history that ends in the same snapshot (a shorter one, or one     *)
(* with another snapshot of the session before it) the same call returns   *)
(* the same feedback or throws the same error.                             *)
C13_SameLastSnapshotSameFeedback ==
  (FeedbackCalled /\ transcript # <<>>)
  => /\ \A k \in 1..Len(transcript) :
          SameResult(
            getFeedback(tasks, call.codeEvalResult, call.rawCodeLineIndexes,
                        SubSeq(transcript, k, Len(transcript))),
            result)
     /\ \A k \in 1..Len(transcript) :
          SameResult(
            getFeedback(tasks, call.codeEvalResult, call.rawCodeLineIndexes,
                        <<transcript[k], LastSnapshot>>),
            result)

\* Witness: two hints were given, then a correctness test failed; the
\* next submission with the bug of the hints is answered.
C13_Witness ==
  /\ HintReturned
  /\ Len(transcript) = 3
  /\ transcript[1].feedback.hintIndex = Some(0)
  /\ transcript[2].feedback.hintIndex = Some(1)
  /\ LastSnapshot.feedback.hintIndex = Null
  /\ LastSnapshot.codeEvalResult # Null
  /\ Len(LastSnapshot.feedback.paragraphs) = 5

-----------------------------------------------------------------------------
(* The history is only read.                                               *)

(* C14: no operation of the feedback generator changes the history: over   *)
(* every call of getFeedback, getSyntaxErrorFeedback and                   *)
(* getPrereqFailureFeedback, whether it returns or throws, the transcript  *)
(* (its snapshots, their evaluation results and feedbacks, paragraphs and  *)
(* hint indexes included) is the same after the call as before.            *)
C14_TranscriptOnlyRead ==
  [][pc = "idle" => transcript' = transcript]_vars

\* Witness: the escalation path has read the most recent snapshot (hint 1 of
\* the same bug, another source) and returned hint 2.
C14_Witness ==
  /\ HintReturned
  /\ transcript # <<>>
  /\ LastSnapshot.feedback.hintIndex = Some(1)
  /\ LastSnapshot.codeEvalResult[1].preprocessedCode #
       call.codeEvalResult.preprocessedCode
  /\ result.val.hintIndex = Some(2)

-----------------------------------------------------------------------------
(* Prerequisite check failures.                                            *)

ParagraphTypes(feedback) ==
  [k \in DOMAIN feedback.paragraphs |-> feedback.paragraphs[k].type]

(* C15: getPrereqFailureFeedback throws when it is called with no failure  *)
(* and when the failure is none of the three variants; for a failure of    *)
(* one variant it returns feedback that is not complete, has no hint index *)
(* and holds the rendering of that variant only: prose and the starter     *)
(* code for missing starter code; prose, the imports, prose and the        *)
(* supported libraries for a bad import; one prose paragraph for global    *)
(* code.                                                                   *)
C15_PrereqFailureFeedback ==
  (call.op = "getPrereqFailureFeedback" /\ pc # "idle")
  => LET failure == call.prereqCheckFailure
     IN IF failure = Null
        THEN pc = "threw" /\ result.threw
        ELSE IF failure[1].type \notin
                  {"missingStarterCode", "badImport", "globalCode"}
        THEN pc = "threw" /\ result.threw
        ELSE /\ pc = "returned"
             /\ ~result.val.isAnswerCorrect
             /\ result.val.hintIndex = Null
             /\ CASE failure[1].type = "missingStarterCode" ->
                       /\ ParagraphTypes(result.val) = <<"text", "code">>
                       /\ result.val.paragraphs[2].content =
                            failure[1].starterCode
                  [] failure[1].type = "badImport" ->
                       /\ ParagraphTypes(result.val) =
                            <<"text", "code", "text", "code">>
                       /\ result.val.paragraphs[2].content =
                            JoinWith(failure[1].badImports, "\n")
                       /\ result.val.paragraphs[4].content =
                            JoinWith(SUPPORTED_PYTHON_LIBS, ", ")
                  [] failure[1].type = "globalCode" ->
                       ParagraphTypes(result.val) = <<"text">>

\* Witness: the feedback of a bad import, with its four paragraphs.
C15_Witness ==
  /\ call.op = "getPrereqFailureFeedback" /\ pc = "returned"
  /\ call.prereqCheckFailure # Null
  /\ call.prereqCheckFailure[1].type = "badImport"
  /\ Len(result.val.paragraphs) = 4

-----------------------------------------------------------------------------
(* The value renderer on its own: _jsToHumanReadable applied to one value. *)

\* Arrays and objects of the values rendered have at most MaxElements
\* elements.
MaxElements == 2

SeqsUpTo(set) == UNION { [1..n -> set] : n \in 0..MaxElements }

Atoms ==
  { JsNull, JsString(<<>>), JsString(<<"\t", "a", "\t", "\n", "\n">>),
    JsString(<<"\\", "t">>), JsNumber(12), JsBoolean(TRUE), JsBoolean(FALSE),
    JsFunction }

Keys == { <<"k">>, <<"\t", "\n">> }

FlatArrays == { JsArray(elems) : elems \in SeqsUpTo(Atoms) }

\* Objects: their keys are pairwise different.
FlatObjects ==
  { JsObject(entries) :
      entries \in { e \in SeqsUpTo(Keys \X Atoms) :
                      \A i, j \in DOMAIN e : i # j => e[i][1] # e[j][1] } }

Inner ==
  { JsString(<<"\t">>), JsNumber(0),
    JsArray(<<JsString(<<"\n">>)>>), JsArray(<<JsFunction>>),
    JsObject(<<<<(<<"\t">>), JsString(<<"\n">>)>>>>),
    JsObject(<<<<(<<"k">>), JsFunction>>>>) }

NestedArrays == { JsArray(elems) : elems \in SeqsUpTo(Inner) }

NestedObjects == { JsObject(<<<<(<<"k">>), v>>>>) : v \in NestedArrays }

JsValues ==
  Atoms \cup FlatArrays \cup FlatObjects \cup NestedArrays \cup NestedObjects

RenderInit ==
  /\ tasks = <<>>
  /\ transcript = <<>>
  /\ pc = "idle"
  /\ call \in { [op |-> "jsToHumanReadable", jsVariable |-> v] :
                  v \in JsValues }
  /\ selected = Case("none", 0, 0)
  /\ result = NoResult
  /\ reinforcementCalls = <<>>

\* _jsToHumanReadable renders the value, or throws.
Render ==
  /\ pc = "idle"
  /\ \E returned \in {jsToHumanReadable(call.jsVariable)} :
       /\ result' = returned
       /\ pc' = Returned(returned)
  /\ UNCHANGED <<tasks, transcript, call, selected, reinforcementCalls>>

RenderNext == Render

RenderSpec == RenderInit /\ [][RenderNext]_vars

Rendered == call.op = "jsToHumanReadable" /\ pc = "returned"

\* The characters of a string.
Chars(string) == [k \in 1..Len(string) |-> SubSeq(string, k, k)]

\* The characters of a string with every tab and newline written as a
\* backslash and a letter.
RECURSIVE Escaped(_)
Escaped(chars) ==
  IF chars = <<>> THEN <<>>
  ELSE Escaped(SubSeq(chars, 1, Len(chars) - 1)) \o
       (IF chars[Len(chars)] = "\t" THEN <<"\\", "t">>
        ELSE IF chars[Len(chars)] = "\n" THEN <<"\\", "n">>
        ELSE <<chars[Len(chars)]>>)

\* The renderings of the elements of an array, in the order of the elements.
ElementRenderings(elems) ==
  [k \in DOMAIN elems |-> jsToHumanReadable(elems[k]).val]

\* The renderings of the entries of an object, one for each entry.
EntryRenderings(entries) ==
  [k \in DOMAIN entries |->
     Join(<<"\"">> \o Escaped(entries[k][1]) \o <<"\"">>) \o ": " \o
     jsToHumanReadable(entries[k][2]).val]

(* C16: the rendering of a value holds no tab and no newline character; a  *)
(* string is rendered in double quotes with each of its tabs and newlines  *)
(* as backslash-t and backslash-n and its other characters unchanged; an   *)
(* array is rendered as the renderings of its elements in their order, an  *)
(* object as one rendering for each of its entries (key, colon, value),    *)
(* at every depth of nesting.                                              *)
C16_RenderingEscapes ==
  Rendered
  => LET value == call.jsVariable
         rendering == result.val
     IN /\ \A k \in 1..Len(rendering) :
             SubSeq(rendering, k, k) \notin {"\t", "\n"}
        /\ value.type = "string"
           => Chars(rendering) = <<"\"">> \o Escaped(value.value) \o <<"\"">>
        /\ value.type = "array"
           => rendering =
                "[" \o JoinWith(ElementRenderings(value.value), ", ") \o "]"
        /\ value.type = "object"
           => rendering =
                "{" \o JoinWith(EntryRenderings(value.value), ", ") \o "}"

\* Witness: an array in an object, with a string of a tab and an array with a
\* string of a newline.
C16_Witness ==
  /\ Rendered
  /\ call.jsVariable =
       JsObject(<<<<(<<"k">>),
                    JsArray(<<JsString(<<"\t">>),
                              JsArray(<<JsString(<<"\n">>)>>)>>)>>>>)
  /\ result.val = "{\"k\": [\"\\t\", [\"\\n\"]]}"

\* A value of a kind the renderer does not know is in the value, at any depth.
RECURSIVE HasUnrecognisedKind(_)
HasUnrecognisedKind(v) ==
  CASE v.type \in {"null", "string", "number", "boolean"} -> FALSE
    [] v.type = "array" ->
         \E k \in DOMAIN v.value : HasUnrecognisedKind(v.value[k])
    [] v.type = "object" ->
         \E k \in DOMAIN v.value : HasUnrecognisedKind(v.value[k][2])
    [] OTHER -> TRUE

RenderingErrorPrefix ==
  "Could not make the following object human-readable: "

\* The renderer throws, with the text of lines 71-72 alone as the message, if
\* and only if a value of an unrecognised kind is in the value.
RenderingThrowsOnUnrecognisedKind ==
  (call.op = "jsToHumanReadable" /\ pc # "idle")
  => IF HasUnrecognisedKind(call.jsVariable)
     THEN pc = "threw" /\ result = Throw(RenderingErrorPrefix)
     ELSE pc = "returned"

(* C17: when a value of an unrecognised kind is in the value rendered, at  *)
(* any depth, the renderer throws, returns no rendering, and the message   *)
(* of the error names the offending value: it is longer than the text      *)
(* 'Could not make the following object human-readable: ' before the       *)
(* value.  The code passes the value as a second argument of Error(),      *)
(* which does not go into the message, so this does not hold.              *)
C17_RenderingErrorNamesValue ==
  (call.op = "jsToHumanReadable" /\ pc # "idle"
     /\ HasUnrecognisedKind(call.jsVariable))
  => /\ pc = "threw"
     /\ result.threw
     /\ Len(result.val) > Len(RenderingErrorPrefix)

-----------------------------------------------------------------------------
(* Hint escalation over a history.                                         *)

(* C18: hint escalation reads the most recent snapshot only: when there is *)
(* no snapshot, or the most recent one has no evaluation result, or its    *)
(* feedback has no hint index, buggy-output feedback has hint index 0 and  *)
(* the first hint of the detected test, whatever hint an earlier snapshot  *)
(* gave for the same test.                                                 *)
C18_HintRestartsAfterOtherFeedback ==
  (/\ HintReturned
   /\ \/ transcript = <<>>
      \/ LastSnapshot.codeEvalResult = Null
      \/ LastSnapshot.feedback.hintIndex = Null)
  => /\ result.val.hintIndex = Some(0)
     /\ result.val.paragraphs[1].content =
          TestAt(tasks, selected).messages[1]

\* Witness: hint 1 of the detected test was given, then a prerequisite check
\* failed; the next submission with the same bug gets hint 0.
C18_Witness ==
  /\ HintReturned
  /\ Len(transcript) >= 2
  /\ transcript[Len(transcript) - 1].feedback.hintIndex = Some(1)
  /\ transcript[Len(transcript) - 1].feedback.paragraphs[1].content =
       TestAt(tasks, selected).messages[2]
  /\ LastSnapshot.codeEvalResult = Null
  /\ result.val.hintIndex = Some(0)

(* C19: whether the escalation goes on is decided by the equality of texts *)
(* only: buggy-output feedback goes on from the previous hint index k (the *)
(* same index for the same source or at the last hint, else k + 1) exactly *)
(* when the previous feedback has a hint index k and its first paragraph   *)
(* is the hint at position k of the test detected now, and has index 0     *)
(* otherwise; which test the previous submission was detected as does not  *)
(* matter.                                                                 *)
C19_ContinuesOnEqualText ==
  HintReturned
  => LET messages == TestAt(tasks, selected).messages
         hintIndex == result.val.hintIndex[1]
     IN IF /\ transcript # <<>>
           /\ LastSnapshot.feedback.hintIndex # Null
           /\ Get(messages, LastSnapshot.feedback.hintIndex[1]) =
                Some(LastSnapshot.feedback.paragraphs[1].content)
        THEN LET k == LastSnapshot.feedback.hintIndex[1]
             IN hintIndex =
                  IF SameSourceAsPrevious \/ k = Len(messages) - 1
                  THEN k ELSE k + 1
        ELSE hintIndex = 0

\* Witness: the previous submission was detected as another test, whose
\* first hint is the first hint of the test detected now; with a changed
\* source the index goes from 0 to 1.
C19_Witness ==
  /\ HintReturned
  /\ PreviousCase.kind = "buggyOutput"
  /\ TestAt(tasks, PreviousCase).buggyFunctionName #
       TestAt(tasks, selected).buggyFunctionName
  /\ ~SameSourceAsPrevious
  /\ LastSnapshot.feedback.hintIndex = Some(0)
  /\ result.val.hintIndex = Some(1)

(* C20: every buggy-output feedback has a hint index h with                *)
(* 0 <= h <= (number of hints of the detected test) - 1 and the hint at h  *)
(* as its text, after any submissions before it, also when the previous    *)
(* feedback had a hint index of a test with more hints.                    *)
C20_HintIndexInRange ==
  HintReturned
  => LET messages == TestAt(tasks, selected).messages
     IN /\ result.val.hintIndex # Null
        /\ 0 <= result.val.hintIndex[1]
        /\ result.val.hintIndex[1] <= Len(messages) - 1
        /\ result.val.paragraphs[1].content =
             messages[result.val.hintIndex[1] + 1]

\* Witness: the previous feedback was hint 2 of a test with three hints, and
\* the test detected now has fewer hints.
C20_Witness ==
  /\ HintReturned
  /\ transcript # <<>>
  /\ LastSnapshot.feedback.hintIndex = Some(2)
  /\ Len(TestAt(tasks, selected).messages) < 3
  /\ result.val.hintIndex = Some(0)

-----------------------------------------------------------------------------
(* The hint index of a feedback.                                           *)

(* C21: a feedback returned by getFeedback has a hint index if and only if *)
(* it is buggy-output feedback; that feedback is not complete and has one  *)
(* paragraph, a prose paragraph with the hint at the hint index of the     *)
(* detected test; correctness, performance, timeout, infinite-recursion,   *)
(* runtime-error and completion feedback have no hint index.               *)
C21_HintIndexIffBuggyOutput ==
  FeedbackReturned
  => /\ result.val.hintIndex # Null <=> selected.kind = "buggyOutput"
     /\ selected.kind \in
          {"buggyOutput", "correctness", "performance", "timeout",
           "infiniteLoop", "runtimeError", "completion"}
     /\ result.val.hintIndex # Null
        => /\ ~result.val.isAnswerCorrect
           /\ ParagraphTypes(result.val) = <<"text">>
           /\ Some(result.val.paragraphs[1].content) =
                Get(TestAt(tasks, selected).messages,
                    result.val.hintIndex[1])

\* Witness: the last of three hints, with the reinforcement attached.
C21_Witness ==
  /\ FeedbackReturned
  /\ result.val.hintIndex = Some(2)
  /\ Len(result.val.paragraphs) = 1
  /\ result.val.reinforcement # Null

(* C22: in the runtime-error case, when the error text does not end with   *)
(* 'line ' and digits, getFeedback returns a prose paragraph followed by   *)
(* a code paragraph that is the error text, unchanged.                     *)
C22_ErrorTextPassedThrough ==
  (/\ FeedbackCalled /\ selected.kind = "runtimeError"
   /\ LineReferences(call.codeEvalResult.errorString) = {})
  => /\ pc = "returned"
     /\ ParagraphTypes(result.val) = <<"text", "code">>
     /\ result.val.paragraphs[2].content =
          Join(call.codeEvalResult.errorString)

\* Witness: the error text has a line reference that is not at its end.
C22_Witness ==
  /\ FeedbackReturned /\ selected.kind = "runtimeError"
  /\ LineReferences(call.codeEvalResult.errorString) = {}
  /\ \E k \in 1..(Len(call.codeEvalResult.errorString) - 5) :
       /\ SubSeq(call.codeEvalResult.errorString, k, k + 4) =
            <<"l", "i", "n", "e", " ">>
       /\ call.codeEvalResult.errorString[k + 5] \in Digits
  /\ result.val.paragraphs[2].content =
       Join(call.codeEvalResult.errorString)

-----------------------------------------------------------------------------
(* ErrorTraceback.fromSkulptError and getErrorString on their own.         *)

\* String.prototype.indexOf from a 1-based place on: the 0-based index of the
\* first occurrence of the pattern, or -1.
RECURSIVE indexOfFrom(_, _, _)
indexOfFrom(chars, pattern, start) ==
  IF start + Len(pattern) - 1 > Len(chars) THEN -1
  ELSE IF SubSeq(chars, start, start + Len(pattern) - 1) = pattern
  THEN start - 1
  ELSE indexOfFrom(chars, pattern, start + 1)

indexOf(chars, pattern) == indexOfFrom(chars, pattern, 1)

\* String.prototype.slice(0, endIndex): a negative end counts from the end
\* of the string.
slice(chars, endIndex) ==
  LET end == IF endIndex < 0 THEN Len(chars) + endIndex ELSE endIndex
  IN SubSeq(chars, 1, IF end < 0 THEN 0
                      ELSE IF end > Len(chars) THEN Len(chars) ELSE end)

OnLine == <<" ", "o", "n", " ", "l", "i", "n", "e">>

\* A Skulpt error: its text (String(skulptError)) and its traceback.
SkulptError(text, traceback) == [text |-> text, traceback |-> traceback]

fromSkulptError(skulptError) ==
  LET errorMessage ==
        slice(skulptError.text, indexOf(skulptError.text, OnLine))
      tracebackCoordinates ==
        [k \in DOMAIN skulptError.traceback |->
           TracebackCoordinates(skulptError.traceback[k].lineno,
                                skulptError.traceback[k].colno)]
  IN [errorMessage |-> errorMessage,
      tracebackCoordinates |-> tracebackCoordinates]

\* Tracebacks have 1..MaxTraceback lines.
MaxTraceback == 2

SkulptTexts ==
  { <<>>,
    <<"Z", "e", "r", "o", "D", "i", "v", "i", "s", "i", "o", "n", "E", "r", "r", "o", "r">>,
    <<"Z", "e", "r", "o", "D", "i", "v", "i", "s", "i", "o", "n", "E", "r", "r", "o", "r", " ", "o", "n", " ", "l", "i", "n", "e", " ", "3">>,
    <<"T", "i", "m", "e", "L", "i", "m", "i", "t", "E", "r", "r", "o", "r">>,
    <<"T", "i", "m", "e", "L", "i", "m", "i", "t", "E", "r", "r", "o", "r", " ", "o", "n", " ", "l", "i", "n", "e", " ", "2">>,
    <<"K", "e", "y", "E", "r", "r", "o", "r", ":", " ", "o", "n", " ", "o", "n", " ", "l", "i", "n", "e", " ", "1">>,
    <<"E", " ", "o", "n", " ", "l", "i", "n", "e", " ", "1", " ", "o", "n", " ", "l", "i", "n", "e", " ", "2">>,
    <<" ", "o", "n", " ", "l", "i", "n", "e", " ", "1">>,
    <<"E", " ", "o", "n", " ", "l", "i", "n">> }

SkulptTracebacks ==
  UNION { [1..n -> { [lineno |-> l, colno |-> 1] : l \in 1..MaxLineNumber }] :
            n \in 1..MaxTraceback }

SkulptErrors ==
  { SkulptError(text, traceback) :
      text \in SkulptTexts, traceback \in SkulptTracebacks }

TracebackInit ==
  /\ tasks = <<>>
  /\ transcript = <<>>
  /\ pc = "idle"
  /\ call \in { [op |-> "fromSkulptError", skulptError |-> e,
                  errorTraceback |-> Null] : e \in SkulptErrors }
  /\ selected = Case("none", 0, 0)
  /\ result = NoResult
  /\ reinforcementCalls = <<>>

\* ErrorTraceback.fromSkulptError makes the ErrorTraceback of the error.
FromSkulptError ==
  /\ pc = "idle"
  /\ call' = [call EXCEPT
                !.errorTraceback = Some(fromSkulptError(call.skulptError))]
  /\ pc' = "created"
  /\ UNCHANGED <<tasks, transcript, selected, result, reinforcementCalls>>

\* getErrorString is called on the ErrorTraceback made.
GetErrorString ==
  /\ pc = "created"
  /\ result' = Ok(getErrorString(call.errorTraceback[1].errorMessage,
                                 call.errorTraceback[1].tracebackCoordinates))
  /\ pc' = "returned"
  /\ UNCHANGED <<tasks, transcript, call, selected, reinforcementCalls>>

TracebackNext == FromSkulptError \/ GetErrorString

TracebackSpec == TracebackInit /\ [][TracebackNext]_vars

\* The places of a text where ' on line' starts.
MarkerPlaces(text) ==
  { k \in 1..Len(text) :
      /\ k + Len(OnLine) - 1 <= Len(text)
      /\ \A m \in 1..Len(OnLine) : text[k + m - 1] = OnLine[m] }

\* The text that precedes the first ' on line'; the whole text when there is
\* none.
TextBeforeMarker(text) ==
  IF MarkerPlaces(text) = {} THEN text
  ELSE SubSeq(text, 1,
              (CHOOSE k \in MarkerPlaces(text) :
                 \A m \in MarkerPlaces(text) : k <= m) - 1)

\* What getErrorString is to return for a message and a traceback.
ErrorStringOf(message, traceback) ==
  IF HasPrefix(message, TimeLimitErrorPrefix) THEN message
  ELSE message \o OnLine \o <<" ">> \o NumberChars(traceback[1].lineno)

FromSkulptErrorCalled == call.op = "fromSkulptError" /\ pc # "idle"

\* With ' on line' in the text of the error, the message is the text before
\* its first occurrence and the error string is made from that message.
FromSkulptErrorWithMarker ==
  (FromSkulptErrorCalled /\ MarkerPlaces(call.skulptError.text) # {})
  => /\ call.errorTraceback[1].errorMessage =
          TextBeforeMarker(call.skulptError.text)
     /\ pc = "returned"
        => result.val = ErrorStringOf(TextBeforeMarker(call.skulptError.text),
                                      call.skulptError.traceback)

\* Without ' on line' in the text, the message is the text without its last
\* character: indexOf gives -1, and slice(0, -1) stops before the last
\* character.
FromSkulptErrorWithoutMarker ==
  (FromSkulptErrorCalled /\ MarkerPlaces(call.skulptError.text) = {})
  => call.errorTraceback[1].errorMessage =
       SubSeq(call.skulptError.text, 1, Len(call.skulptError.text) - 1)

(* C23: fromSkulptError followed by getErrorString keeps the error: the    *)
(* message stored is the text of the Skulpt error before its first         *)
(* ' on line', and the whole text when it has none; getErrorString returns *)
(* that message when it starts with 'TimeLimitError', else the message     *)
(* followed by ' on line ' and the line of the first traceback             *)
(* coordinates.  The code loses the last character of a text without       *)
(* ' on line', so this does not hold.                                      *)
C23_FromSkulptErrorKeepsError ==
  FromSkulptErrorCalled
  => /\ call.errorTraceback[1].errorMessage =
          TextBeforeMarker(call.skulptError.text)
     /\ pc = "returned"
        => result.val = ErrorStringOf(TextBeforeMarker(call.skulptError.text),
                                      call.skulptError.traceback)

====
